---- MODULE Spec2Model ----
(***************************************************************************)
(* Seat allocation of GIC Cinemas (src/seat_allocation.py) over the seat   *)
(* and booking tables of src/models.py.                                    *)
(*                                                                         *)
(* A text is a tuple of one-character strings, <<"A", "1">> for "A1".      *)
(* A seat, a movie and a booking are identified by their position in the   *)
(* table (the autoincremented primary key).                                *)
(***************************************************************************)
EXTENDS Integers, Sequences, FiniteSets, TLC

VARIABLES movies, seats, bookings, booking_seats, result,
          selection, pages, confirm, view, setup

vars == <<movies, seats, bookings, booking_seats, result,
          selection, pages, confirm, view, setup>>

\* The tables of the database.
db == <<movies, seats, bookings, booking_seats>>

(***************************************************************************)
(* Bounds of the model and constants of the program.                       *)
(***************************************************************************)

\* Largest venue of the model: rows * seats_per_row <= MaxSeats.
MaxSeats == 7

\* Most seat records of all venues together where bookings are confirmed.
MaxSeatRecords == 3

\* Largest venue in which two people book at the same time.
MaxRaceSeats == 5

\* Longest row on which the selector is applied on its own.
MaxRowSeats == 10

\* setup_movie: "Number of rows must be between 1 and 26".
MAX_ROWS == 26

\* setup_movie: "Seats per row must be between 1 and 50".
MAX_SEATS_PER_ROW == 50

\* string.ascii_uppercase
ascii_uppercase ==
    << "A", "B", "C", "D", "E", "F", "G", "H", "I", "J", "K", "L", "M",
       "N", "O", "P", "Q", "R", "S", "T", "U", "V", "W", "X", "Y", "Z" >>

\* string.ascii_lowercase, the characters str.upper() changes.
ascii_lowercase ==
    << "a", "b", "c", "d", "e", "f", "g", "h", "i", "j", "k", "l", "m",
       "n", "o", "p", "q", "r", "s", "t", "u", "v", "w", "x", "y", "z" >>

\* The characters \d matches, digits[v + 1] being the digit of value v.
digits == << "0", "1", "2", "3", "4", "5", "6", "7", "8", "9" >>

\* The characters str.strip() removes.
whitespace == { " " }

(***************************************************************************)
(* Helpers for sequences.                                                  *)
(***************************************************************************)

Range(s) == { s[i] : i \in 1..Len(s) }

Min(a, b) == IF a <= b THEN a ELSE b

Max(a, b) == IF a >= b THEN a ELSE b

\* The position of c in s, 0 when c is not in s.
IndexOf(s, c) ==
    IF c \in Range(s) THEN CHOOSE i \in 1..Len(s) : s[i] = c ELSE 0

\* Python's s[:n] for n >= 0.
Prefix(s, n) == SubSeq(s, 1, Min(Max(n, 0), Len(s)))

\* Python's s[lo:hi] for 0 <= lo (0-based lo, exclusive hi).
Slice(s, lo, hi) == SubSeq(s, lo + 1, Min(hi, Len(s)))

(***************************************************************************)
(* get_middle_start_column                                                 *)
(***************************************************************************)

\* int(x) for x = twice / 2: truncation toward zero.
IntOfHalves(twice) ==
    IF twice >= 0 THEN twice \div 2 ELSE -((-twice) \div 2)

\* get_middle_start_column without the + 0.5 that rounds to the nearest column.
get_middle_start_column_unrounded(seats_per_row, num_tickets) ==
    IF num_tickets >= seats_per_row
    THEN 1
    ELSE Max(1, IntOfHalves((seats_per_row + 1) - num_tickets))

\* get_middle_start_column with + 1 where the code adds 0.5.
get_middle_start_column_rounding_up(seats_per_row, num_tickets) ==
    IF num_tickets >= seats_per_row
    THEN 1
    ELSE Max(1, IntOfHalves((seats_per_row + 1) - num_tickets + 2))

\* get_middle_start_column with center = seats_per_row / 2.
get_middle_start_column_from_half_row(seats_per_row, num_tickets) ==
    IF num_tickets >= seats_per_row
    THEN 1
    ELSE Max(1, IntOfHalves(seats_per_row - num_tickets + 1))

\* The floats of the code are multiples of 0.5; each is kept as its double.
get_middle_start_column(seats_per_row, num_tickets) ==
    IF num_tickets >= seats_per_row
    THEN 1
    ELSE LET center2 == seats_per_row + 1
             half_tickets2 == num_tickets
             start2 == center2 - half_tickets2 + 1
         IN  Max(1, IntOfHalves(start2))

(***************************************************************************)
(* parse_seat_position                                                     *)
(***************************************************************************)

\* The optional start position: None, or a text.
None == [given |-> FALSE, text |-> <<>>]

Str(text) == [given |-> TRUE, text |-> text]

\* Python's truth value of an Optional[str].
Truthy(position) == position.given /\ position.text # <<>>

RECURSIVE lstrip(_)
lstrip(text) ==
    IF text # <<>> /\ Head(text) \in whitespace THEN lstrip(Tail(text)) ELSE text

RECURSIVE rstrip(_)
rstrip(text) ==
    IF text # <<>> /\ text[Len(text)] \in whitespace
    THEN rstrip(SubSeq(text, 1, Len(text) - 1))
    ELSE text

strip(text) == rstrip(lstrip(text))

\* The text left as it is, its lower-case letters too.
upper_skipped(text) == text

upper(text) ==
    [ i \in 1..Len(text) |->
        IF text[i] \in Range(ascii_lowercase)
        THEN ascii_uppercase[IndexOf(ascii_lowercase, text[i])]
        ELSE text[i] ]

\* int() of a text of digits.
RECURSIVE int(_)
int(text) ==
    IF text = <<>>
    THEN 0
    ELSE 10 * int(SubSeq(text, 1, Len(text) - 1))
         + (IndexOf(digits, text[Len(text)]) - 1)

\* The pattern with \d* for \d+: a letter alone matches.
Matches_without_digits(text) ==
    /\ Len(text) >= 1
    /\ text[1] \in Range(ascii_uppercase)
    /\ \A i \in 2..Len(text) : text[i] \in Range(digits)

\* re.match(r'^([A-Z])(\d+)$', text)
Matches(text) ==
    /\ Len(text) >= 2
    /\ text[1] \in Range(ascii_uppercase)
    /\ \A i \in 2..Len(text) : text[i] \in Range(digits)

NoPosition == [ok |-> FALSE, row_letter |-> "", col_number |-> 0]

parse_seat_position(position) ==
    IF ~Truthy(position)
    THEN NoPosition
    ELSE LET text == upper(strip(position.text))
         IN  IF ~Matches(text)
             THEN NoPosition
             ELSE [ ok |-> TRUE,
                    row_letter |-> text[1],
                    col_number |-> int(Tail(text)) ]

(***************************************************************************)
(* Queries                                                                 *)
(***************************************************************************)

\* db.query(Movie).filter(Movie.id == movie_id).first() is not None
MovieFound(movie_id) == movie_id \in 1..Len(movies)

\* ORDER BY seat_number of a set of seat ids.
RECURSIVE OrderBySeatNumber(_)
OrderBySeatNumber(ids) ==
    IF ids = {}
    THEN <<>>
    ELSE LET first == CHOOSE i \in ids :
                        \A j \in ids :
                            \/ seats[i].seat_number < seats[j].seat_number
                            \/ /\ seats[i].seat_number = seats[j].seat_number
                               /\ i <= j
         IN  <<first>> \o OrderBySeatNumber(ids \ {first})

\* The query without the filter on is_booked.
get_seats_in_row(movie_id, row_letter) ==
    OrderBySeatNumber({ i \in 1..Len(seats) :
                          /\ seats[i].movie_id = movie_id
                          /\ seats[i].row_letter = row_letter })

get_available_seats_in_row(movie_id, row_letter) ==
    OrderBySeatNumber({ i \in 1..Len(seats) :
                          /\ seats[i].movie_id = movie_id
                          /\ seats[i].row_letter = row_letter
                          /\ seats[i].is_booked = FALSE })

\* get_row_letters_for_movie with the front row first.
get_row_letters_front_first(movie_id) ==
    IF ~MovieFound(movie_id)
    THEN <<>>
    ELSE LET letters == Prefix(ascii_uppercase, movies[movie_id].rows)
         IN  [ i \in 1..Len(letters) |-> letters[Len(letters) + 1 - i] ]

get_row_letters_for_movie(movie_id) ==
    IF ~MovieFound(movie_id)
    THEN <<>>
    ELSE Prefix(ascii_uppercase, movies[movie_id].rows)

\* The count without the filter on is_booked.
total_seats_counted(movie_id) ==
    Cardinality({ i \in 1..Len(seats) : seats[i].movie_id = movie_id })

\* The count() of the unbooked seats of a movie.
total_available(movie_id) ==
    Cardinality({ i \in 1..Len(seats) :
                    seats[i].movie_id = movie_id /\ seats[i].is_booked = FALSE })

(***************************************************************************)
(* select_centered_seats                                                   *)
(***************************************************************************)

\* sorted(available_map.keys())
RECURSIVE SortedNumbers(_)
SortedNumbers(numbers) ==
    IF numbers = {}
    THEN <<>>
    ELSE LET least == CHOOSE n \in numbers : \A m \in numbers : n <= m
         IN  <<least>> \o SortedNumbers(numbers \ {least})

\* available_map[n]: the dict keeps the last seat listed under a number.
available_map(available_seats, n) ==
    LET last == CHOOSE i \in 1..Len(available_seats) :
                    /\ seats[available_seats[i]].seat_number = n
                    /\ \A j \in (i + 1)..Len(available_seats) :
                           seats[available_seats[j]].seat_number # n
    IN  available_seats[last]

\* The inner loop: the count numbers from 0-based index i on are consecutive.
Consecutive(available_numbers, i, count) ==
    \A j \in 0..(count - 2) :
        available_numbers[i + j + 2] - available_numbers[i + j + 1] = 1

Abs(x) == IF x < 0 THEN -x ELSE x

\* distance <= best_distance: a later run at the same distance replaces the best.
Improves_or_ties(distance, best) == best.is_inf \/ distance <= best.distance

\* distance < best_distance, best_distance being float('inf') until a run is found.
Improves(distance, best) == best.is_inf \/ distance < best.distance

\* The outer loop from 0-based index i on; best is the pair
\* (best_start_idx, best_distance) so far.
RECURSIVE ScanRuns(_, _, _, _, _)
ScanRuns(available_numbers, count, preferred_start, i, best) ==
    IF i >= Len(available_numbers) - count + 1
    THEN best
    ELSE LET distance == Abs(available_numbers[i + 1] - preferred_start)
             next ==
                 IF /\ Consecutive(available_numbers, i, count)
                    /\ Improves(distance, best)
                 THEN [start_idx |-> i, distance |-> distance, is_inf |-> FALSE]
                 ELSE best
         IN  ScanRuns(available_numbers, count, preferred_start, i + 1, next)

\* best_start_idx = len(available_numbers) - count before the loop, not 0.
best_start_idx_from_the_right(available_numbers, count, preferred_start) ==
    ScanRuns(available_numbers, count, preferred_start, 0,
             [start_idx |-> Len(available_numbers) - count, distance |-> 0,
              is_inf |-> TRUE]).start_idx

best_start_idx(available_numbers, count, preferred_start) ==
    ScanRuns(available_numbers, count, preferred_start, 0,
             [start_idx |-> 0, distance |-> 0, is_inf |-> TRUE]).start_idx

\* select_centered_seats returning nothing when it finds no consecutive run.
select_centered_seats_without_fallback(available_seats, count, preferred_start) ==
    IF available_seats = <<>> \/ count <= 0
    THEN <<>>
    ELSE LET available_numbers ==
                 SortedNumbers({ seats[available_seats[i]].seat_number :
                                   i \in 1..Len(available_seats) })
             best == ScanRuns(available_numbers, count, preferred_start, 0,
                              [start_idx |-> 0, distance |-> 0, is_inf |-> TRUE])
         IN  IF count >= Len(available_numbers)
             THEN Prefix(available_seats, count)
             ELSE IF best.is_inf
             THEN <<>>
             ELSE [ k \in 1..count |->
                      available_map(available_seats,
                                    available_numbers[best.start_idx + k]) ]

select_centered_seats(available_seats, count, preferred_start) ==
    IF available_seats = <<>> \/ count <= 0
    THEN <<>>
    ELSE LET available_numbers ==
                 SortedNumbers({ seats[available_seats[i]].seat_number :
                                   i \in 1..Len(available_seats) })
         IN  IF count >= Len(available_numbers)
             THEN Prefix(available_seats, count)
             ELSE LET start ==
                          best_start_idx(available_numbers, count, preferred_start)
                      selected_numbers ==
                          Slice(available_numbers, start, start + count)
                  IN  [ k \in 1..Len(selected_numbers) |->
                          available_map(available_seats, selected_numbers[k]) ]

(***************************************************************************)
(* get_default_seats                                                       *)
(***************************************************************************)

\* What one row adds to the selection in the centred step of both allocators.
centered_from_row(movie_id, available, remaining) ==
    LET to_take == Min(remaining, Len(available))
        start_col == get_middle_start_column(movies[movie_id].seats_per_row, to_take)
    IN  select_centered_seats(available, to_take, start_col)

\* The loop of get_default_seats without remaining -= len(selected_from_row).
RECURSIVE DefaultLoop_keeping_remaining(_, _, _, _, _)
DefaultLoop_keeping_remaining(movie_id, row_letters, k, selected_seats, remaining) ==
    IF k > Len(row_letters) \/ remaining <= 0
    THEN selected_seats
    ELSE LET available == get_available_seats_in_row(movie_id, row_letters[k])
         IN  IF available = <<>>
             THEN DefaultLoop_keeping_remaining(movie_id, row_letters, k + 1,
                                                selected_seats, remaining)
             ELSE DefaultLoop_keeping_remaining(
                      movie_id, row_letters, k + 1,
                      selected_seats \o centered_from_row(movie_id, available, remaining),
                      remaining)

\* The loop over row_letters from position k on.
RECURSIVE DefaultLoop(_, _, _, _, _)
DefaultLoop(movie_id, row_letters, k, selected_seats, remaining) ==
    IF k > Len(row_letters) \/ remaining <= 0
    THEN selected_seats
    ELSE LET available == get_available_seats_in_row(movie_id, row_letters[k])
         IN  IF available = <<>>
             THEN DefaultLoop(movie_id, row_letters, k + 1, selected_seats, remaining)
             ELSE LET selected_from_row ==
                          centered_from_row(movie_id, available, remaining)
                  IN  DefaultLoop(movie_id, row_letters, k + 1,
                                  selected_seats \o selected_from_row,
                                  remaining - Len(selected_from_row))

get_default_seats(movie_id, num_tickets) ==
    IF ~MovieFound(movie_id)
    THEN <<>>
    ELSE DefaultLoop(movie_id, get_row_letters_for_movie(movie_id), 1,
                     <<>>, num_tickets)

(***************************************************************************)
(* get_seats_from_position                                                 *)
(***************************************************************************)

\* seats_to_right without the filter on seat_number.
seats_of_whole_row(available, start_col) ==
    OrderBySeatNumber(Range(available))

\* [s for s in available if s.seat_number >= start_col], sorted by seat_number.
seats_to_right(available, start_col) ==
    OrderBySeatNumber({ s \in Range(available) : seats[s].seat_number >= start_col })

\* The loop over rows_to_check from position k on.
RECURSIVE PositionLoop(_, _, _, _, _, _, _)
PositionLoop(movie_id, rows_to_check, k, start_col, selected_seats, remaining, is_first_row) ==
    IF k > Len(rows_to_check) \/ remaining <= 0
    THEN selected_seats
    ELSE LET available == get_available_seats_in_row(movie_id, rows_to_check[k])
         IN  IF available = <<>>
             THEN PositionLoop(movie_id, rows_to_check, k + 1, start_col,
                               selected_seats, remaining, is_first_row)
             ELSE IF is_first_row
             THEN LET right == seats_to_right(available, start_col)
                      to_take == Min(remaining, Len(right))
                  IN  PositionLoop(movie_id, rows_to_check, k + 1, start_col,
                                   selected_seats \o Prefix(right, to_take),
                                   remaining - to_take, FALSE)
             ELSE LET selected_from_row ==
                          centered_from_row(movie_id, available, remaining)
                  IN  PositionLoop(movie_id, rows_to_check, k + 1, start_col,
                                   selected_seats \o selected_from_row,
                                   remaining - Len(selected_from_row), FALSE)

\* get_seats_from_position going on with the rows before start_row after the last row.
get_seats_from_position_wrapping(movie_id, start_row, start_col, num_tickets) ==
    IF ~MovieFound(movie_id)
    THEN <<>>
    ELSE LET all_rows == Prefix(ascii_uppercase, movies[movie_id].rows)
             start_idx == IndexOf(all_rows, start_row) - 1
         IN  IF start_idx = -1
             THEN <<>>
             ELSE PositionLoop(movie_id,
                               Slice(all_rows, start_idx, Len(all_rows))
                                   \o Slice(all_rows, 0, start_idx),
                               1, start_col, <<>>, num_tickets, TRUE)

get_seats_from_position(movie_id, start_row, start_col, num_tickets) ==
    IF ~MovieFound(movie_id)
    THEN <<>>
    ELSE LET all_rows == Prefix(ascii_uppercase, movies[movie_id].rows)
             start_idx == IndexOf(all_rows, start_row) - 1
         IN  IF start_idx = -1
             THEN <<>>
             ELSE PositionLoop(movie_id, Slice(all_rows, start_idx, Len(all_rows)),
                               1, start_col, <<>>, num_tickets, TRUE)

(***************************************************************************)
(* allocate_seats                                                          *)
(***************************************************************************)

NoError == [kind |-> "None", count |-> 0]

\* A failed result; allocator records which allocator had run, if any.
Failure(kind, count, allocator) ==
    [ success |-> FALSE,
      seats |-> <<>>,
      error |-> [kind |-> kind, count |-> count],
      allocator |-> allocator ]

\* The checks of a given start position with the column checked before the row.
position_error_column_first(movie_id, start_position) ==
    LET parsed == parse_seat_position(start_position)
        row_letters == Prefix(ascii_uppercase, movies[movie_id].rows)
    IN  IF ~parsed.ok
        THEN "InvalidFormat"
        ELSE IF \/ parsed.col_number < 1
                \/ parsed.col_number > movies[movie_id].seats_per_row
        THEN "ColumnOutOfRange"
        ELSE IF parsed.row_letter \notin Range(row_letters)
        THEN "RowOutOfRange"
        ELSE "None"

\* The checks of a given start position, in the order of the code: the kind of
\* the first one that fails, "None" when all pass.
position_error(movie_id, start_position) ==
    LET parsed == parse_seat_position(start_position)
        row_letters == Prefix(ascii_uppercase, movies[movie_id].rows)
    IN  IF ~parsed.ok
        THEN "InvalidFormat"
        ELSE IF parsed.row_letter \notin Range(row_letters)
        THEN "RowOutOfRange"
        ELSE IF \/ parsed.col_number < 1
                \/ parsed.col_number > movies[movie_id].seats_per_row
        THEN "ColumnOutOfRange"
        ELSE "None"

\* The final length check handing out the partial collection with the failure.
allocation_result_keeping_partial(collected, num_tickets, allocator) ==
    IF Len(collected) < num_tickets
    THEN [ success |-> FALSE,
           seats |-> collected,
           error |-> [kind |-> "FragmentationFailure", count |-> num_tickets],
           allocator |-> allocator ]
    ELSE [ success |-> TRUE,
           seats |-> collected,
           error |-> NoError,
           allocator |-> allocator ]

\* The final length check, returning the seats sorted by seat number.
allocation_result_sorted(collected, num_tickets, allocator) ==
    IF Len(collected) < num_tickets
    THEN Failure("FragmentationFailure", num_tickets, allocator)
    ELSE [ success |-> TRUE,
           seats |-> OrderBySeatNumber(Range(collected)),
           error |-> NoError,
           allocator |-> allocator ]

\* The final length check on what the allocator collected.
allocation_result(collected, num_tickets, allocator) ==
    IF Len(collected) < num_tickets
    THEN Failure("FragmentationFailure", num_tickets, allocator)
    ELSE [ success |-> TRUE,
           seats |-> collected,
           error |-> NoError,
           allocator |-> allocator ]

allocate_seats(movie_id, num_tickets, start_position) ==
    IF ~MovieFound(movie_id)
    THEN Failure("NotFound", 0, "none")
    ELSE IF total_available(movie_id) < num_tickets
    THEN Failure("InsufficientCapacity", total_available(movie_id), "none")
    ELSE IF Truthy(start_position)
    THEN LET kind == position_error(movie_id, start_position)
             parsed == parse_seat_position(start_position)
         IN  IF kind # "None"
             THEN Failure(kind, 0, "none")
             ELSE allocation_result(
                      get_seats_from_position(movie_id, parsed.row_letter,
                                              parsed.col_number, num_tickets),
                      num_tickets, "positional")
    ELSE allocation_result(get_default_seats(movie_id, num_tickets),
                           num_tickets, "default")

(***************************************************************************)
(* Setting up a venue and confirming a booking                             *)
(***************************************************************************)

\* The seats of a new movie, in the order they are added: row by row.
create_seats_for_movie(movie_id, rows, seats_per_row) ==
    [ i \in 1..(rows * seats_per_row) |->
        [ movie_id |-> movie_id,
          row_letter |-> ascii_uppercase[((i - 1) \div seats_per_row) + 1],
          seat_number |-> ((i - 1) % seats_per_row) + 1,
          is_booked |-> FALSE ] ]

\* confirm_booking without seat.is_booked = True.
mark_booked_skipped(table, ids) == table

\* The seat table after confirm_booking has marked the seats ids.
mark_booked(table, ids) ==
    [ i \in 1..Len(table) |->
        IF i \in ids THEN [table[i] EXCEPT !.is_booked = TRUE] ELSE table[i] ]

\* Seat.seat_label: the row letter followed by the digits of the number.
RECURSIVE str(_)
str(n) ==
    IF n < 10 THEN <<digits[n + 1]>> ELSE str(n \div 10) \o <<digits[(n % 10) + 1]>>

seat_label(row_letter, seat_number) == <<row_letter>> \o str(seat_number)

(***************************************************************************)
(* The specification: a venue after setup_movie and at most one confirmed  *)
(* booking of any of its seats, on which allocate_seats is called.         *)
(***************************************************************************)

\* The venues setup_movie accepts, up to the bound of the model.
Venues ==
    { v \in (1..Min(MaxSeats, MAX_ROWS)) \X (1..Min(MaxSeats, MAX_SEATS_PER_ROW)) :
        v[1] * v[2] <= MaxSeats }

\* The active movie of every state of this specification.
active_movie == 1

NoCall ==
    [ called |-> FALSE, num_tickets |-> 0, start_position |-> None,
      ret |-> Failure("None", 0, "none") ]

\* No selector call is held.
NoSelection ==
    [ kind |-> "none", count |-> 0, preferred_start |-> 0, start_col |-> 0,
      picked |-> <<>> ]

\* The people booking at the same time.
Users == { "u1", "u2" }

\* No selection page is open in a browser.
NoPage == [ shown |-> FALSE, seat_ids |-> <<>>, bookings_seen |-> 0 ]

\* No confirmation is being answered.
NoConfirm ==
    [ posted |-> FALSE, endpoint |-> "none", seat_id_list |-> <<>>,
      outcome |-> "none" ]

\* No map is being rendered.
NoView == [ kind |-> "none", movie_id |-> 0, booking |-> 0, selected_ids |-> {},
            rows |-> <<>> ]

\* No setup form is being answered.
NoSetup ==
    [ posted |-> FALSE, title |-> <<>>, rows |-> 0, seats_per_row |-> 0,
      accepted |-> FALSE ]

\* The variables of the other specifications, at rest.
NothingElse ==
    /\ setup = NoSetup
    /\ selection = NoSelection
    /\ pages = [ u \in Users |-> NoPage ]
    /\ confirm = NoConfirm
    /\ view = NoView

Init ==
    \E v \in Venues :
        \E ids \in SUBSET (1..(v[1] * v[2])) :
            /\ movies = << [rows |-> v[1], seats_per_row |-> v[2], is_active |-> TRUE] >>
            /\ seats = mark_booked(create_seats_for_movie(1, v[1], v[2]), ids)
            /\ bookings = IF ids = {} THEN <<>> ELSE << [movie_id |-> 1] >>
            /\ booking_seats = { [booking_id |-> 1, seat_id |-> i] : i \in ids }
            /\ result = NoCall
            /\ NothingElse

\* The ticket counts asked for: from none to one more than the venue holds.
TicketInputs == 0..(Len(seats) + 1)

\* Start positions in and around the venue, written as the labels of seats.
LabelInputs ==
    { seat_label(ascii_uppercase[r], c) :
        r \in 1..Min(movies[active_movie].rows + 1, MAX_ROWS),
        c \in 0..(movies[active_movie].seats_per_row + 1) }

\* Start positions in other spellings, and texts that are no position.
TextInputs ==
    { <<"a", "1">>, <<"b", "2">>, <<" ", "A", "1", " ">>, <<"A", "0", "1">>,
      <<"A", "1", "0">>, <<>>, <<" ">>, <<"A">>, <<"1", "A">>, <<"A", "A", "1">>,
      <<"1">>, <<"A", " ", "1">>, <<"A", "1", "B">>, <<"H", "1", "0">> }

PositionInputs == { Str(t) : t \in LabelInputs \cup TextInputs }

\* A call of allocate_seats that marks the seats it returns as booked.
Allocate_reserving(num_tickets, p) ==
    LET returned == allocate_seats(active_movie, num_tickets, p)
    IN  /\ ~result.called
        /\ result' = [ called |-> TRUE, num_tickets |-> num_tickets,
                       start_position |-> p, ret |-> returned ]
        /\ seats' = mark_booked(seats, Range(returned.seats))
        /\ UNCHANGED <<movies, bookings, booking_seats>>
        /\ UNCHANGED <<selection, pages, confirm, view, setup>>

\* A request handler calls allocate_seats with the start position p and holds
\* what it returned; the call writes nothing.
Allocate(num_tickets, p) ==
    /\ ~result.called
    /\ result' = [ called |-> TRUE, num_tickets |-> num_tickets,
                   start_position |-> p,
                   ret |-> allocate_seats(active_movie, num_tickets, p) ]
    /\ UNCHANGED db
    /\ UNCHANGED <<selection, pages, confirm, view, setup>>

AllocateDefault == \E n \in TicketInputs : Allocate(n, None)

AllocateFromPosition ==
    \E n \in TicketInputs : \E p \in PositionInputs : Allocate(n, p)

\* The handler renders its response and returns: the result is dropped.
Respond ==
    /\ result.called
    /\ result' = NoCall
    /\ UNCHANGED db
    /\ UNCHANGED <<selection, pages, confirm, view, setup>>

Next == AllocateDefault \/ AllocateFromPosition \/ Respond

Spec == Init /\ [][Next]_vars

(***************************************************************************)
(* What the claims speak of, stated on the tables and on the held result   *)
(* without the operators of the allocator.                                 *)
(***************************************************************************)

ret == result.ret

\* The seats of the venue, and those of them not booked.
VenueSeats == { i \in 1..Len(seats) : seats[i].movie_id = active_movie }

UnbookedSeats == { i \in VenueSeats : ~seats[i].is_booked }

NoSeatBooked == UnbookedSeats = VenueSeats

venue_rows == movies[active_movie].rows

venue_seats_per_row == movies[active_movie].seats_per_row

\* The position of a row in back-to-front order, A being 1.
RowIndex(row_letter) == IndexOf(ascii_uppercase, row_letter)

EnoughSeats == Cardinality(UnbookedSeats) >= result.num_tickets

PairwiseDistinct(s) == \A i, j \in 1..Len(s) : i # j => s[i] # s[j]

\* A call without a start position, and one with a start position text.
DefaultCall == result.called /\ ~result.start_position.given

PositionCall == result.called /\ result.start_position.given

start_text == result.start_position.text

\* One letter of either case followed by digits, between optional blanks.
IsPositionText(text) ==
    \E a, b \in 0..Len(text) :
        /\ a + b + 2 <= Len(text)
        /\ \A i \in 1..a : text[i] = " "
        /\ \A i \in (Len(text) - b + 1)..Len(text) : text[i] = " "
        /\ text[a + 1] \in Range(ascii_uppercase) \cup Range(ascii_lowercase)
        /\ \A i \in (a + 2)..(Len(text) - b) : text[i] \in Range(digits)

\* The position the call asks for, when its text is one.
start == parse_seat_position(result.start_position)

StartRowInRange == RowIndex(start.row_letter) \in 1..venue_rows

StartColInRange == start.col_number \in 1..venue_seats_per_row

\* A call that passes the capacity check and every check of its position.
ValidPositionCall ==
    /\ PositionCall
    /\ EnoughSeats
    /\ IsPositionText(start_text)
    /\ StartRowInRange
    /\ StartColInRange

\* What the Positional Allocator collects for the call.
Collected ==
    get_seats_from_position(active_movie, start.row_letter, start.col_number,
                            result.num_tickets)

Fails(kind) ==
    /\ ~ret.success
    /\ ret.error.kind = kind
    /\ ret.seats = <<>>

\* The centered start column in closed form.
CenteredStart(seats_per_row, count) ==
    IF count >= seats_per_row THEN 1 ELSE (seats_per_row - count + 2) \div 2

(***************************************************************************)
(* The claims.                                                             *)
(***************************************************************************)

\* C1: on a venue with no seat booked, allocate without a start position and
\* with 1 <= num_tickets <= rows * seats_per_row succeeds and returns exactly
\* num_tickets seats, pairwise distinct, all of that venue.
C1_DefaultOnEmptyVenue ==
    ( /\ DefaultCall
      /\ NoSeatBooked
      /\ result.num_tickets \in 1..(venue_rows * venue_seats_per_row) )
    => /\ ret.success
       /\ Len(ret.seats) = result.num_tickets
       /\ PairwiseDistinct(ret.seats)
       /\ Range(ret.seats) \subseteq VenueSeats

\* Witness of C1: an empty venue of several rows, and a default allocation that
\* succeeds with more seats than one row holds.
C1_Witness ==
    /\ DefaultCall
    /\ NoSeatBooked
    /\ venue_rows >= 2
    /\ result.num_tickets > venue_seats_per_row
    /\ ret.success
    /\ Len(ret.seats) = result.num_tickets

\* C2: allocate fails with InsufficientCapacity exactly when fewer seats are
\* unbooked than num_tickets, with or without a start position (well formed or
\* not); the failure reports the number of unbooked seats and returns no seats.
C2_InsufficientCapacity ==
    result.called =>
        /\ (ret.error.kind = "InsufficientCapacity") <=> ~EnoughSeats
        /\ ~EnoughSeats =>
              /\ Fails("InsufficientCapacity")
              /\ ret.error.count = Cardinality(UnbookedSeats)
              /\ ret.allocator = "none"

\* Witness of C2: too few seats are left, some are, and the start position given
\* is no position at all; the capacity is what is reported.
C2_Witness ==
    /\ PositionCall
    /\ start_text = <<"1", "A">>
    /\ Cardinality(UnbookedSeats) >= 1
    /\ ~NoSeatBooked
    /\ Fails("InsufficientCapacity")
    /\ ret.error.count = Cardinality(UnbookedSeats)

\* C3 as claimed: with enough seats, every given start position text the parser
\* rejects, the empty text included, ends in InvalidFormat with no seats and no
\* allocator run.
C3_Original ==
    ( /\ PositionCall
      /\ result.num_tickets >= 1
      /\ EnoughSeats
      /\ ~IsPositionText(start_text) )
    => Fails("InvalidFormat") /\ ret.allocator = "none"

\* C3 as amended: with enough seats, every given start position text that is not
\* empty and that the parser rejects ends in InvalidFormat with no seats and no
\* allocator run; the empty text counts as no start position, and the Default
\* Allocator runs.
C3_InvalidFormat ==
    /\ (PositionCall /\ EnoughSeats /\ start_text # <<>> /\ ~IsPositionText(start_text))
       => Fails("InvalidFormat") /\ ret.allocator = "none"
    /\ (PositionCall /\ EnoughSeats /\ start_text = <<>>)
       => ret.allocator = "default" /\ ret.error.kind # "InvalidFormat"
    /\ (PositionCall /\ ret.error.kind = "InvalidFormat")
       => ~IsPositionText(start_text)

\* Witness of C3: a venue with booked seats and enough free ones, and a text of
\* two letters and a digit, rejected as InvalidFormat.
C3_Witness ==
    /\ PositionCall
    /\ start_text = <<"A", "A", "1">>
    /\ ~NoSeatBooked
    /\ result.num_tickets >= 1
    /\ EnoughSeats
    /\ Fails("InvalidFormat")

\* Witness of the empty text of C3: it is given, and the Default Allocator
\* succeeds.
C3_EmptyTextWitness ==
    /\ PositionCall
    /\ start_text = <<>>
    /\ result.num_tickets >= 1
    /\ ret.success
    /\ ret.allocator = "default"

\* C4: with enough seats and a start position text that parses to (row, col):
\* RowOutOfRange if row is not among the venue's rows, whatever col is; else
\* ColumnOutOfRange if col is outside 1..seats_per_row; in both cases no seats
\* and no allocator run.  The Positional Allocator runs exactly when both checks
\* pass, and never in any other call.
C4_RowThenColumn ==
    /\ (PositionCall /\ EnoughSeats /\ IsPositionText(start_text))
       => /\ ~StartRowInRange
             => Fails("RowOutOfRange") /\ ret.allocator = "none"
          /\ (StartRowInRange /\ ~StartColInRange)
             => Fails("ColumnOutOfRange") /\ ret.allocator = "none"
          /\ (StartRowInRange /\ StartColInRange)
             => ret.allocator = "positional"
    /\ (result.called /\ ret.allocator = "positional") => ValidPositionCall

\* Witness of C4: a position wrong in its row and in its column, reported as
\* RowOutOfRange.
C4_Witness ==
    /\ PositionCall
    /\ EnoughSeats
    /\ result.num_tickets >= 1
    /\ IsPositionText(start_text)
    /\ ~StartRowInRange
    /\ ~StartColInRange
    /\ Fails("RowOutOfRange")

\* C5: when enough seats are unbooked and the start position is valid and in
\* range but the allocator collects fewer than num_tickets seats, allocate fails
\* with FragmentationFailure, not InsufficientCapacity, and returns no seats.
C5_FragmentationFailure ==
    (ValidPositionCall /\ Len(Collected) < result.num_tickets)
    => /\ Fails("FragmentationFailure")
       /\ ret.error.count = result.num_tickets
       /\ ret.allocator = "positional"

\* Witness of C5: an empty venue of two rows of three seats and three tickets
\* from B2; only B2 and B3 are collected, B being the last row.
C5_Witness ==
    /\ PositionCall
    /\ NoSeatBooked
    /\ venue_rows = 2
    /\ venue_seats_per_row = 3
    /\ start_text = <<"B", "2">>
    /\ result.num_tickets = 3
    /\ Len(Collected) = 2
    /\ Fails("FragmentationFailure")

\* C6: on a venue with no seat booked and 1 <= num_tickets <= seats_per_row,
\* default allocation returns seats of row A only, on the consecutive columns
\* from the centered start column of num_tickets on.
C6_CenteredInBackRow ==
    ( /\ DefaultCall
      /\ NoSeatBooked
      /\ result.num_tickets \in 1..venue_seats_per_row )
    => /\ ret.success
       /\ Len(ret.seats) = result.num_tickets
       /\ \A s \in Range(ret.seats) : seats[s].row_letter = "A"
       /\ { seats[s].seat_number : s \in Range(ret.seats) }
          = LET first == CenteredStart(venue_seats_per_row, result.num_tickets)
            IN  first..(first + result.num_tickets - 1)

\* Witness of C6: an empty venue of five seats a row and three tickets: A2, A3,
\* A4.
C6_Witness ==
    /\ DefaultCall
    /\ NoSeatBooked
    /\ venue_seats_per_row = 5
    /\ result.num_tickets = 3
    /\ ret.success
    /\ { seat_label(seats[s].row_letter, seats[s].seat_number) :
           s \in Range(ret.seats) }
       = { <<"A", "2">>, <<"A", "3">>, <<"A", "4">> }

\* C7: in a positional allocation from (row, col), no seat collected or returned
\* lies in row `row` on a column below col, whatever seats are booked.
C7_NothingLeftOfStart ==
    ValidPositionCall =>
        \A s \in Range(ret.seats) \cup Range(Collected) :
            ~( /\ seats[s].row_letter = start.row_letter
               /\ seats[s].seat_number < start.col_number )

\* Witness of C7: a positional allocation that succeeds and goes on into a later
\* row although a seat left of the start column is free.
C7_Witness ==
    /\ ValidPositionCall
    /\ ret.success
    /\ \E s \in UnbookedSeats :
           /\ seats[s].row_letter = start.row_letter
           /\ seats[s].seat_number < start.col_number
    /\ \E s \in Range(ret.seats) : seats[s].row_letter # start.row_letter
    /\ \E s \in Range(ret.seats) : seats[s].row_letter = start.row_letter

\* C8: positional allocation never wraps: every seat collected or returned lies
\* in the start row or in a row after it in back-to-front order, also when these
\* rows cannot supply num_tickets seats.
C8_NeverWraps ==
    ValidPositionCall =>
        \A s \in Range(ret.seats) \cup Range(Collected) :
            RowIndex(seats[s].row_letter) >= RowIndex(start.row_letter)

\* Witness of C8: the rows from the start row on cannot supply the seats, a row
\* before the start row has free seats, and the call fails.
C8_Witness ==
    /\ ValidPositionCall
    /\ result.num_tickets >= 1
    /\ Fails("FragmentationFailure")
    /\ Collected # <<>>
    /\ \E s \in UnbookedSeats :
           RowIndex(seats[s].row_letter) < RowIndex(start.row_letter)

\* C9: default allocation never skips a row: if a seat of row r is returned,
\* every unbooked seat of every row before r (A first) is returned too.
C9_NoRowSkipped ==
    (result.called /\ ret.allocator = "default") =>
        \A s \in Range(ret.seats) :
            \A t \in UnbookedSeats :
                RowIndex(seats[t].row_letter) < RowIndex(seats[s].row_letter)
                => t \in Range(ret.seats)

\* Witness of C9: some seats are booked, and a default allocation takes all that
\* is left of one row and a part of what is left of a later row.
C9_Witness ==
    /\ DefaultCall
    /\ ~NoSeatBooked
    /\ ret.success
    /\ \E s, t \in Range(ret.seats) :
           RowIndex(seats[s].row_letter) < RowIndex(seats[t].row_letter)
    /\ \E s \in Range(ret.seats) :
           \E t \in UnbookedSeats \ Range(ret.seats) :
               seats[t].row_letter = seats[s].row_letter

\* C10: allocation is read-only: a step in which allocate_seats is called and
\* returns, with or without a start position, with success or failure, leaves
\* every seat's is_booked flag, the bookings and their seats as they were.
C10_AllocationReadOnly ==
    [][ (~result.called /\ result'.called) => db' = db ]_vars

\* Witness of C10: an allocation has returned seats on a venue with a booking,
\* and the returned seats are still unbooked.
C10_Witness ==
    /\ result.called
    /\ ret.success
    /\ ret.seats # <<>>
    /\ bookings # <<>>
    /\ \A s \in Range(ret.seats) : ~seats[s].is_booked

\* C11 is a relation between two runs on equal inputs; allocate_seats is an
\* operator of the tables and its arguments, and no formula states it.

\* The value of a digit, and of a text of digits read as a decimal number.
DigitValue(c) == CHOOSE v \in 0..9 : digits[v + 1] = c

RECURSIVE PowerOfTen(_)
PowerOfTen(k) == IF k = 0 THEN 1 ELSE 10 * PowerOfTen(k - 1)

RECURSIVE DecimalValue(_)
DecimalValue(text) ==
    IF text = <<>>
    THEN 0
    ELSE DigitValue(Head(text)) * PowerOfTen(Len(text) - 1) + DecimalValue(Tail(text))

\* The letter of the alphabet a character is, in either case.
IsLetter(c, k) == c = ascii_uppercase[k] \/ c = ascii_lowercase[k]

\* C14: the Position Parser accepts exactly the texts that are, between blanks,
\* one letter of either case followed by one or more digits, and returns that
\* letter in upper case and the decimal value of the digits, in range of the
\* venue or not; every other text (digits first, two letters, a letter alone,
\* nothing) is rejected.
C14_PositionParser ==
    PositionCall =>
        /\ start.ok <=> IsPositionText(start_text)
        /\ start.ok =>
              \E a, b \in 0..Len(start_text) :
                  /\ a + b + 2 <= Len(start_text)
                  /\ \A i \in 1..a : start_text[i] = " "
                  /\ \A i \in (Len(start_text) - b + 1)..Len(start_text) :
                         start_text[i] = " "
                  /\ \A i \in (a + 2)..(Len(start_text) - b) :
                         start_text[i] \in Range(digits)
                  /\ \E k \in 1..Len(ascii_uppercase) :
                         /\ IsLetter(start_text[a + 1], k)
                         /\ start.row_letter = ascii_uppercase[k]
                  /\ start.col_number
                     = DecimalValue(SubSeq(start_text, a + 2, Len(start_text) - b))
        /\ start_text \in { <<"1", "A">>, <<"A", "A", "1">>, <<>>, <<"A">> }
              => ~start.ok
        /\ start_text = <<"a", "1">>
              => start = [ok |-> TRUE, row_letter |-> "A", col_number |-> 1]

\* Witness of C14: "H10" is parsed to (H, 10) in a venue that has no such seat,
\* and the call fails on the range of the position, not on its format.
C14_Witness ==
    /\ PositionCall
    /\ start_text = <<"H", "1", "0">>
    /\ start = [ok |-> TRUE, row_letter |-> "H", col_number |-> 10]
    /\ EnoughSeats
    /\ ret.error.kind \in { "RowOutOfRange", "ColumnOutOfRange" }

\* What C17 says a positional allocation collects: the first of rows_to_check,
\* the start row, gives its unbooked seats from start_col rightward; every later
\* row gives what the per-row step of the Default Allocator gives.
RECURSIVE ClaimedPositionLoop(_, _, _, _, _)
ClaimedPositionLoop(rows_to_check, k, start_col, selected_seats, remaining) ==
    IF k > Len(rows_to_check) \/ remaining <= 0
    THEN selected_seats
    ELSE LET available == get_available_seats_in_row(active_movie, rows_to_check[k])
             taken ==
                 IF k = 1
                 THEN Prefix(OrderBySeatNumber(
                                 { s \in Range(available) :
                                     seats[s].seat_number >= start_col }),
                             remaining)
                 ELSE IF available = <<>>
                 THEN <<>>
                 ELSE centered_from_row(active_movie, available, remaining)
         IN  ClaimedPositionLoop(rows_to_check, k + 1, start_col,
                                 selected_seats \o taken, remaining - Len(taken))

ClaimedCollected ==
    ClaimedPositionLoop(
        SubSeq(ascii_uppercase, RowIndex(start.row_letter), venue_rows),
        1, start.col_number, <<>>, result.num_tickets)

\* The start row of the call has an unbooked seat.
StartRowHasFreeSeat ==
    \E s \in UnbookedSeats : seats[s].row_letter = start.row_letter

\* C17: in a positional allocation only the start row is filled rightward from
\* the start column; every later row that gives seats gives what the per-row
\* step of the Default Allocator gives (the Centered-Block Selector on all its
\* unbooked seats), whatever seats are booked, also when the start row has no
\* unbooked seat at all.
C17_LaterRowsCentered ==
    ValidPositionCall => Collected = ClaimedCollected

\* What the code does keep of C17: the same, when the start row has an
\* unbooked seat.
C17_WhenStartRowHasFreeSeat ==
    (ValidPositionCall /\ StartRowHasFreeSeat) => Collected = ClaimedCollected

(***************************************************************************)
(* The selector on its own: one row of any length up to MaxRowSeats with   *)
(* any of its seats booked, on which select_centered_seats and             *)
(* get_middle_start_column are applied.                                    *)
(***************************************************************************)

SelectorInit ==
    \E n \in 1..Min(MaxRowSeats, MAX_SEATS_PER_ROW) :
        \E ids \in SUBSET (1..n) :
            /\ movies = << [rows |-> 1, seats_per_row |-> n, is_active |-> TRUE] >>
            /\ seats = mark_booked(create_seats_for_movie(1, 1, n), ids)
            /\ bookings = IF ids = {} THEN <<>> ELSE << [movie_id |-> 1] >>
            /\ booking_seats = { [booking_id |-> 1, seat_id |-> i] : i \in ids }
            /\ result = NoCall
            /\ pages = [ u \in Users |-> NoPage ]
            /\ confirm = NoConfirm
            /\ view = NoView
            /\ setup = NoSetup
            /\ selection = NoSelection

\* The counts and preferred starts asked for: in and just outside the row.
CountInputs == 0..(movies[active_movie].seats_per_row + 1)

\* select_centered_seats on the available seats of the row.
SelectCentered(count, preferred_start) ==
    /\ selection.kind = "none"
    /\ selection' =
           [ kind |-> "select", count |-> count,
             preferred_start |-> preferred_start, start_col |-> 0,
             picked |-> select_centered_seats(
                            get_available_seats_in_row(active_movie, "A"),
                            count, preferred_start) ]
    /\ UNCHANGED <<db, result, pages, confirm, view, setup>>

SelectInRow ==
    \E count \in CountInputs : \E preferred_start \in CountInputs :
        SelectCentered(count, preferred_start)

\* get_middle_start_column for the row of the venue.
MiddleStartColumn ==
    \E count \in CountInputs :
        /\ selection.kind = "none"
        /\ selection' =
               [ kind |-> "center", count |-> count, preferred_start |-> 0,
                 start_col |-> get_middle_start_column(
                                   movies[active_movie].seats_per_row, count),
                 picked |-> <<>> ]
        /\ UNCHANGED <<db, result, pages, confirm, view, setup>>

\* The step of get_default_seats in one row that has available seats: the
\* centered start column of what it takes, and the selector from there.
CenteredInRow ==
    \E remaining \in CountInputs :
        LET available == get_available_seats_in_row(active_movie, "A")
        IN  /\ selection.kind = "none"
            /\ remaining > 0
            /\ available # <<>>
            /\ selection' =
                   [ kind |-> "block", count |-> remaining, preferred_start |-> 0,
                     start_col |-> get_middle_start_column(
                                       movies[active_movie].seats_per_row,
                                       Min(remaining, Len(available))),
                     picked |-> centered_from_row(active_movie, available, remaining) ]
            /\ UNCHANGED <<db, result, pages, confirm, view, setup>>

\* The caller has used what the selector returned.
SelectorReturn ==
    /\ selection.kind # "none"
    /\ selection' = NoSelection
    /\ UNCHANGED <<db, result, pages, confirm, view, setup>>

SelectorNext ==
    SelectInRow \/ MiddleStartColumn \/ CenteredInRow \/ SelectorReturn

SelectorSpec == SelectorInit /\ [][SelectorNext]_vars

(***************************************************************************)
(* What the claims about the selector speak of                             *)
(***************************************************************************)

\* The numbers of the unbooked seats of the row.
AvailableNumbers == { seats[i].seat_number : i \in UnbookedSeats }

\* The count numbers from s on are all available.
IsRun(s, count) == \A j \in 0..(count - 1) : (s + j) \in AvailableNumbers

RunStarts(count) == { s \in AvailableNumbers : IsRun(s, count) }

\* The seat numbers of the seats the selector returned, in its order.
PickedNumbers ==
    [ k \in 1..Len(selection.picked) |-> seats[selection.picked[k]].seat_number ]

\* A selector call for fewer seats than the row has available.
PartialSelect ==
    /\ selection.kind = "select"
    /\ selection.count >= 1
    /\ selection.count < Cardinality(AvailableNumbers)

\* C18: when count is less than the number of available seats and a run of
\* count consecutive available numbers exists, the selector returns such a run:
\* one whose start is nearest to preferred_start, the lowest start among the
\* nearest ones.
C18_NearestRun ==
    (PartialSelect /\ RunStarts(selection.count) # {}) =>
        \E s \in RunStarts(selection.count) :
            /\ PickedNumbers = [ k \in 1..selection.count |-> s + k - 1 ]
            /\ \A t \in RunStarts(selection.count) :
                   \/ Abs(s - selection.preferred_start) < Abs(t - selection.preferred_start)
                   \/ /\ Abs(s - selection.preferred_start) = Abs(t - selection.preferred_start)
                      /\ s <= t

\* Free {1, 2, 5, 6}, two seats preferred from 3: the runs from 1 and from 5
\* are equally near and the run from 1 is returned.
C18_Witness ==
    /\ PartialSelect
    /\ AvailableNumbers = {1, 2, 5, 6}
    /\ selection.count = 2
    /\ selection.preferred_start = 3
    /\ PickedNumbers = <<1, 2>>

\* C19: when count is less than the number of available seats and no run of
\* count consecutive available numbers exists, the selector returns the count
\* lowest-numbered available seats in ascending order.
C19_LowestWithoutRun ==
    (PartialSelect /\ RunStarts(selection.count) = {}) =>
        /\ Len(selection.picked) = selection.count
        /\ \A k \in 1..(Len(PickedNumbers) - 1) : PickedNumbers[k] < PickedNumbers[k + 1]
        /\ Range(PickedNumbers) =
               { a \in AvailableNumbers :
                   Cardinality({ b \in AvailableNumbers : b < a }) < selection.count }
        /\ \A k \in 1..Len(selection.picked) : selection.picked[k] \in UnbookedSeats

\* Free {1, 3, 5, 7, 9}, count 2 gives {1, 3}.
C19_Witness ==
    /\ PartialSelect
    /\ AvailableNumbers = {1, 3, 5, 7, 9}
    /\ selection.count = 2
    /\ RunStarts(2) = {}
    /\ PickedNumbers = <<1, 3>>

\* C20: the centered start column for count seats in a row of seats_per_row
\* seats is floor((seats_per_row - count + 2) / 2), never less than 1, and 1
\* when count >= seats_per_row; in a 10-seat row 5 for 2, 4 for 3, 4 for 4.
C20_CenteredStartColumn ==
    selection.kind = "center" =>
        LET seats_per_row == movies[active_movie].seats_per_row
            count == selection.count
        IN  /\ \E f \in (-1)..(seats_per_row + 1) :
                   /\ 2 * f <= seats_per_row - count + 2
                   /\ seats_per_row - count + 2 < 2 * f + 2
                   /\ selection.start_col = Max(1, f)
            /\ selection.start_col >= 1
            /\ count >= seats_per_row => selection.start_col = 1
            /\ (seats_per_row = 10 /\ count = 2) => selection.start_col = 5
            /\ (seats_per_row = 10 /\ count = 3) => selection.start_col = 4
            /\ (seats_per_row = 10 /\ count = 4) => selection.start_col = 4

C20_Witness ==
    /\ selection.kind = "center"
    /\ movies[active_movie].seats_per_row = 10
    /\ selection.count = 4
    /\ selection.start_col = 4

(***************************************************************************)
(* The request handlers of src/main.py that write the tables, and the two  *)
(* seating maps.                                                           *)
(***************************************************************************)

\* get_active_movie: the first movie with is_active, 0 for None.
get_active_movie ==
    IF \E m \in 1..Len(movies) : movies[m].is_active
    THEN CHOOSE m \in 1..Len(movies) :
             /\ movies[m].is_active
             /\ \A k \in 1..(m - 1) : ~movies[k].is_active
    ELSE 0

\* The query of the commit step without the filter on movie_id.
seats_unbooked_anywhere(movie_id, seat_id_list) ==
    { i \in 1..Len(seats) :
        /\ i \in Range(seat_id_list)
        /\ seats[i].is_booked = FALSE }

\* The query of the commit step without the filter on is_booked.
seats_of_movie_listed(movie_id, seat_id_list) ==
    { i \in 1..Len(seats) :
        /\ i \in Range(seat_id_list)
        /\ seats[i].movie_id = movie_id }

\* "Verify all seats are still available": the rows the query returns.
seats_still_available(movie_id, seat_id_list) ==
    { i \in 1..Len(seats) :
        /\ i \in Range(seat_id_list)
        /\ seats[i].movie_id = movie_id
        /\ seats[i].is_booked = FALSE }

\* The handler answers without writing.
Rejected(endpoint, seat_id_list, outcome) ==
    /\ confirm' = [ posted |-> TRUE, endpoint |-> endpoint,
                    seat_id_list |-> seat_id_list, outcome |-> outcome ]
    /\ UNCHANGED db

\* The commit step of confirm_booking and of book_tickets on the parsed list
\* of seat ids: the whole handler runs without suspending.
CommitStep(endpoint, seat_id_list) ==
    LET movie == get_active_movie
        found == seats_still_available(movie, seat_id_list)
    IN  /\ ~confirm.posted
        /\ view.kind = "none"
        /\ ~setup.posted
        /\ IF movie = 0
           THEN Rejected(endpoint, seat_id_list, "no_movie")
           ELSE IF seat_id_list = <<>>
           THEN Rejected(endpoint, seat_id_list, "no_seats")
           ELSE IF Cardinality(found) # Len(seat_id_list)
           THEN Rejected(endpoint, seat_id_list, "seats_taken")
           ELSE /\ bookings' = Append(bookings, [movie_id |-> movie])
                /\ seats' = mark_booked(seats, found)
                /\ booking_seats' =
                       booking_seats \cup
                       { [booking_id |-> Len(bookings) + 1, seat_id |-> i] : i \in found }
                /\ confirm' = [ posted |-> TRUE, endpoint |-> endpoint,
                                seat_id_list |-> seat_id_list,
                                outcome |-> "confirmed" ]
                /\ UNCHANGED movies
        /\ UNCHANGED <<result, selection, pages, view, setup>>

\* The seat ids a form can name: every seat record and one id of no record.
SeatIdInputs == 1..(Len(seats) + 1)

\* The lists posted by hand: empty, of one or two ids in any order and with
\* a repeated id, and of more ids in ascending order.
PostedInputs ==
    {<<>>} \cup { <<i>> : i \in SeatIdInputs }
           \cup { <<i, j>> : i \in SeatIdInputs, j \in SeatIdInputs }
           \cup { SortedNumbers(S) : S \in { T \in SUBSET SeatIdInputs : Cardinality(T) >= 3 } }

ConfirmBooking ==
    \E seat_id_list \in PostedInputs : CommitStep("confirm", seat_id_list)

BookTickets ==
    \E seat_id_list \in PostedInputs : CommitStep("book", seat_id_list)

\* The titles, row counts and row lengths posted to /setup.
TitleInputs == { <<>>, <<" ">>, <<"F">> }

RowInputs == (0..MaxSeatRecords) \cup { MAX_ROWS, MAX_ROWS + 1 }

SeatsPerRowInputs == (0..MaxSeatRecords) \cup { MAX_SEATS_PER_ROW, MAX_SEATS_PER_ROW + 1 }

\* The validation of setup_movie without the two range checks.
setup_errors_title_only(title, rows, seats_per_row) ==
    title = <<>> \/ strip(title) = <<>>

\* The errors list of setup_movie is not empty.
setup_errors(title, rows, seats_per_row) ==
    \/ title = <<>> \/ strip(title) = <<>>
    \/ rows < 1 \/ rows > MAX_ROWS
    \/ seats_per_row < 1 \/ seats_per_row > MAX_SEATS_PER_ROW

SetupMovie(title, rows, seats_per_row) ==
    /\ ~confirm.posted
    /\ view.kind = "none"
    /\ ~setup.posted
    /\ IF setup_errors(title, rows, seats_per_row)
       THEN UNCHANGED <<movies, seats>>
       ELSE /\ Len(seats) + rows * seats_per_row <= MaxSeatRecords
            /\ movies' =
                   Append([ m \in 1..Len(movies) |-> [movies[m] EXCEPT !.is_active = FALSE] ],
                          [rows |-> rows, seats_per_row |-> seats_per_row,
                           is_active |-> TRUE])
            /\ seats' = seats \o create_seats_for_movie(Len(movies) + 1, rows, seats_per_row)
    /\ setup' = [ posted |-> TRUE, title |-> title, rows |-> rows,
                  seats_per_row |-> seats_per_row,
                  accepted |-> ~setup_errors(title, rows, seats_per_row) ]
    /\ UNCHANGED <<bookings, booking_seats, result, selection, pages, confirm, view>>

Setup ==
    \E title \in TitleInputs : \E rows \in RowInputs :
        \E seats_per_row \in SeatsPerRowInputs :
            SetupMovie(title, rows, seats_per_row)

ResetSystem ==
    /\ ~confirm.posted
    /\ view.kind = "none"
    /\ ~setup.posted
    /\ movies' = [ m \in 1..Len(movies) |-> [movies[m] EXCEPT !.is_active = FALSE] ]
    /\ UNCHANGED <<seats, bookings, booking_seats, result, selection, pages, confirm, view, setup>>

\* ORDER BY row_letter, seat_number of a set of seat ids.
RECURSIVE OrderByRowAndNumber(_)
OrderByRowAndNumber(ids) ==
    IF ids = {}
    THEN <<>>
    ELSE LET Before(i, j) ==
                 \/ IndexOf(ascii_uppercase, seats[i].row_letter)
                        < IndexOf(ascii_uppercase, seats[j].row_letter)
                 \/ /\ seats[i].row_letter = seats[j].row_letter
                    /\ \/ seats[i].seat_number < seats[j].seat_number
                       \/ seats[i].seat_number = seats[j].seat_number /\ i <= j
             first == CHOOSE i \in ids : \A j \in ids : Before(i, j)
         IN  <<first>> \o OrderByRowAndNumber(ids \ {first})

\* The status with the tests in the other order: booked before selected.
seat_status_booked_first(seat, selected_ids) ==
    IF seats[seat].is_booked THEN "booked"
    ELSE IF seat \in selected_ids THEN "selected"
    ELSE "available"

\* The status of a seat in get_seating_map.
seat_status(seat, selected_ids) ==
    IF seat \in selected_ids THEN "selected"
    ELSE IF seats[seat].is_booked THEN "booked"
    ELSE "available"

\* The dict of get_seating_map as the sequence of its items in insertion
\* order: one item per row letter met in the ordered query.
get_seating_map(movie_id, selected_seat_ids) ==
    LET selected_ids == Range(selected_seat_ids)
        ordered == OrderByRowAndNumber({ i \in 1..Len(seats) : seats[i].movie_id = movie_id })
        FirstOfLetter(k) == \A j \in 1..(k - 1) : seats[ordered[j]].row_letter # seats[ordered[k]].row_letter
        firsts == SortedNumbers({ k \in 1..Len(ordered) : FirstOfLetter(k) })
        Entry(seat) ==
            [ id |-> seat,
              number |-> seats[seat].seat_number,
              label |-> seat_label(seats[seat].row_letter, seats[seat].seat_number),
              status |-> seat_status(seat, selected_ids) ]
    IN  [ r \in 1..Len(firsts) |->
            LET letter == seats[ordered[firsts[r]]].row_letter
                of_letter == SelectSeq(ordered, LAMBDA i : seats[i].row_letter = letter)
            IN  [ letter |-> letter,
                  seats |-> [ k \in 1..Len(of_letter) |-> Entry(of_letter[k]) ] ] ]

\* sorted(set(letters)): the rows front to back.
RECURSIVE sorted_letters(_)
sorted_letters(letters) ==
    IF letters = {}
    THEN <<>>
    ELSE LET first == CHOOSE c \in letters :
                          \A d \in letters :
                              IndexOf(ascii_uppercase, c) <= IndexOf(ascii_uppercase, d)
         IN  <<first>> \o sorted_letters(letters \ {first})

\* sorted(set(letters), reverse=True)
RECURSIVE sorted_letters_reverse(_)
sorted_letters_reverse(letters) ==
    IF letters = {}
    THEN <<>>
    ELSE LET last == CHOOSE c \in letters :
                         \A d \in letters :
                             IndexOf(ascii_uppercase, d) <= IndexOf(ascii_uppercase, c)
         IN  <<last>> \o sorted_letters_reverse(letters \ {last})

\* get_booking_seating_map: 'rows' of the dict it returns.
get_booking_seating_map(viewing_booking) ==
    LET movie == bookings[viewing_booking].movie_id
        all_seats == { i \in 1..Len(seats) : seats[i].movie_id = movie }
        viewed_booking_seat_ids ==
            { bs.seat_id : bs \in { x \in booking_seats : x.booking_id = viewing_booking } }
        all_booked_seats ==
            { bs \in booking_seats : seats[bs.seat_id].movie_id = movie }
        other_booked_seat_ids ==
            { bs.seat_id : bs \in all_booked_seats } \ viewed_booking_seat_ids
        row_letters == sorted_letters_reverse({ seats[i].row_letter : i \in all_seats })
        seats_per_row == movies[movie].seats_per_row
        Marker(row_letter, seat_num) ==
            LET matching == { i \in all_seats :
                                /\ seats[i].row_letter = row_letter
                                /\ seats[i].seat_number = seat_num }
            IN  IF matching = {}
                THEN "."
                ELSE LET seat == CHOOSE i \in matching : \A j \in matching : i <= j
                     IN  IF seat \in viewed_booking_seat_ids THEN "o"
                         ELSE IF seat \in other_booked_seat_ids THEN "#"
                         ELSE "."
    IN  [ r \in 1..Len(row_letters) |->
            [ letter |-> row_letters[r],
              seats |-> [ seat_num \in 1..seats_per_row |->
                            [ number |-> seat_num,
                              marker |-> Marker(row_letters[r], seat_num),
                              label |-> seat_label(row_letters[r], seat_num) ] ] ] ]

\* get_seating_map for the active movie and any list of selected seat ids.
ProjectSeatingMap ==
    \E selected_seat_ids \in PostedInputs :
        /\ ~confirm.posted
        /\ view.kind = "none"
        /\ ~setup.posted
        /\ get_active_movie # 0
        /\ view' = [ kind |-> "selection", movie_id |-> get_active_movie,
                     booking |-> 0, selected_ids |-> Range(selected_seat_ids),
                     rows |-> get_seating_map(get_active_movie, selected_seat_ids) ]
        /\ UNCHANGED <<db, result, selection, pages, confirm, setup>>

\* view_booking of a booking that exists, with the map.
ViewBooking ==
    \E booking \in 1..Len(bookings) :
        /\ ~confirm.posted
        /\ view.kind = "none"
        /\ ~setup.posted
        /\ view' = [ kind |-> "booking", movie_id |-> bookings[booking].movie_id,
                     booking |-> booking, selected_ids |-> {},
                     rows |-> get_booking_seating_map(booking) ]
        /\ UNCHANGED <<db, result, selection, pages, confirm, setup>>

\* The response is sent: nothing of the request is kept.
Answer ==
    /\ confirm.posted \/ view.kind # "none" \/ setup.posted
    /\ confirm' = NoConfirm
    /\ view' = NoView
    /\ setup' = NoSetup
    /\ UNCHANGED <<db, result, selection, pages>>

\* The database after create_all: no movie, no seat, no booking.
BookingInit ==
    /\ movies = <<>>
    /\ seats = <<>>
    /\ bookings = <<>>
    /\ booking_seats = {}
    /\ result = NoCall
    /\ NothingElse

BookingNext ==
    \/ Setup
    \/ ResetSystem
    \/ ConfirmBooking
    \/ BookTickets
    \/ ProjectSeatingMap
    \/ ViewBooking
    \/ Answer

BookingSpec == BookingInit /\ [][BookingNext]_vars

(***************************************************************************)
(* Two people booking at the same time: each is shown a selection by       *)
(* allocate_tickets and confirms it later.  Every handler is an async def  *)
(* that does not await between its queries and its commits, so on the one  *)
(* event loop of uvicorn.run each handler is one step.                     *)
(***************************************************************************)

RaceInit ==
    \E v \in { w \in (1..MaxRaceSeats) \X (1..MaxRaceSeats) : w[1] * w[2] <= MaxRaceSeats } :
        \E ids \in SUBSET (1..(v[1] * v[2])) :
            /\ movies = << [rows |-> v[1], seats_per_row |-> v[2], is_active |-> TRUE] >>
            /\ seats = mark_booked(create_seats_for_movie(1, v[1], v[2]), ids)
            /\ bookings = IF ids = {} THEN <<>> ELSE << [movie_id |-> 1] >>
            /\ booking_seats = { [booking_id |-> 1, seat_id |-> i] : i \in ids }
            /\ result = NoCall
            /\ NothingElse

\* allocate_tickets: the page of u shows the default selection, or u is
\* redirected and keeps the page they had.
AllocateTickets(u, num_tickets) ==
    LET movie == get_active_movie
        returned == allocate_seats(movie, num_tickets, None)
    IN  /\ ~confirm.posted
        /\ view.kind = "none"
        /\ ~setup.posted
        /\ IF \/ movie = 0
              \/ num_tickets < 1
              \/ num_tickets > total_available(movie)
              \/ ~returned.success
              \/ returned.seats = <<>>
           THEN UNCHANGED pages
           ELSE pages' = [ pages EXCEPT ![u] =
                             [ shown |-> TRUE, seat_ids |-> returned.seats,
                               bookings_seen |-> Len(bookings) ] ]
        /\ UNCHANGED <<db, result, selection, confirm, view, setup>>

AskForTickets ==
    \E u \in Users : \E num_tickets \in TicketInputs : AllocateTickets(u, num_tickets)

\* u presses Confirm on the page they were shown: its seat_ids are posted.
ConfirmSelection ==
    \E u \in Users :
        /\ pages[u].shown
        /\ CommitStep("confirm", pages[u].seat_ids)

RaceNext == AskForTickets \/ ConfirmSelection \/ Answer

RaceSpec == RaceInit /\ [][RaceNext]_vars

(***************************************************************************)
(* What the claims about confirmations and maps speak of                   *)
(***************************************************************************)

\* i is the id of a seat of the venue that is active.
ActiveVenueSeat(i) ==
    /\ i \in 1..Len(seats)
    /\ movies[seats[i].movie_id].is_active

\* The seats linked to booking b.
LinkedSeats(b) == { x.seat_id : x \in { y \in booking_seats : y.booking_id = b } }

\* The list names a seat that is booked or not of the active venue, or names
\* a seat twice.
UnfitList(seat_id_list) ==
    \/ \E k \in 1..Len(seat_id_list) : ~ActiveVenueSeat(seat_id_list[k])
    \/ \E k \in 1..Len(seat_id_list) :
           /\ seat_id_list[k] \in 1..Len(seats)
           /\ seats[seat_id_list[k]].is_booked
    \/ ~PairwiseDistinct(seat_id_list)

\* C12: the commit step is all-or-nothing.  A confirmation whose list names a
\* seat that is booked, or not of the active venue, or names a seat twice (or
\* names no seat) is rejected and leaves every table as it was; any other
\* confirmation creates exactly one booking, and every listed seat, and no
\* other seat, becomes booked and linked to that booking.
C12_AllOrNothing ==
    [][ (~confirm.posted /\ confirm'.posted) =>
            LET seat_id_list == confirm'.seat_id_list
            IN  IF UnfitList(seat_id_list) \/ seat_id_list = <<>>
                THEN /\ confirm'.outcome # "confirmed"
                     /\ db' = db
                ELSE /\ confirm'.outcome = "confirmed"
                     /\ movies' = movies
                     /\ Len(bookings') = Len(bookings) + 1
                     /\ SubSeq(bookings', 1, Len(bookings)) = bookings
                     /\ booking_seats' \ booking_seats =
                            { [booking_id |-> Len(bookings'), seat_id |-> i] :
                                i \in Range(seat_id_list) }
                     /\ booking_seats \subseteq booking_seats'
                     /\ Len(seats') = Len(seats)
                     /\ \A i \in 1..Len(seats) :
                            IF i \in Range(seat_id_list)
                            THEN seats'[i] = [seats[i] EXCEPT !.is_booked = TRUE]
                            ELSE seats'[i] = seats[i]
      ]_vars

\* A list of a booked and a free seat of the active venue was rejected, and
\* the free seat is still free.
C12_Witness ==
    /\ confirm.posted
    /\ confirm.outcome = "seats_taken"
    /\ \E i, j \in Range(confirm.seat_id_list) :
           /\ ActiveVenueSeat(i) /\ seats[i].is_booked
           /\ \E b \in 1..Len(bookings) : i \in LinkedSeats(b)
           /\ ActiveVenueSeat(j) /\ ~seats[j].is_booked
           /\ \A b \in 1..Len(bookings) : j \notin LinkedSeats(b)

\* A list of two free seats of the active venue was confirmed.
C12_ConfirmedWitness ==
    /\ confirm.posted
    /\ confirm.outcome = "confirmed"
    /\ Len(confirm.seat_id_list) = 2
    /\ LinkedSeats(Len(bookings)) = Range(confirm.seat_id_list)

\* A seat of a venue that is no longer active was posted and rejected.
C12_OtherVenueWitness ==
    /\ confirm.posted
    /\ confirm.outcome = "seats_taken"
    /\ get_active_movie # 0
    /\ \E i \in Range(confirm.seat_id_list) :
           /\ i \in 1..Len(seats)
           /\ ~seats[i].is_booked
           /\ ~ActiveVenueSeat(i)

\* Two people were shown overlapping selections against the same bookings.
SameSnapshot(u1, u2) ==
    /\ u1 # u2
    /\ pages[u1].shown /\ pages[u2].shown
    /\ pages[u1].bookings_seen = pages[u2].bookings_seen
    /\ Range(pages[u1].seat_ids) \cap Range(pages[u2].seat_ids) # {}

MapEntries ==
    { e \in (1..Len(view.rows)) \X (1..Len(seats)) : e[2] <= Len(view.rows[e[1]].seats) }

EntryAt(e) == view.rows[e[1]].seats[e[2]]

\* C15: the selection map holds every seat of the venue exactly once, under
\* its own row letter, rows in ascending letter order and seats in ascending
\* number order within a row; a seat is 'selected' if its id is among the
\* selected ids, otherwise 'booked' if is_booked, otherwise 'available'.
C15_SelectionMap ==
    view.kind = "selection" =>
        /\ \A i \in 1..Len(seats) :
               Cardinality({ e \in MapEntries : EntryAt(e).id = i }) =
                   IF seats[i].movie_id = view.movie_id THEN 1 ELSE 0
        /\ \A e \in MapEntries :
               /\ EntryAt(e).id \in 1..Len(seats)
               /\ seats[EntryAt(e).id].row_letter = view.rows[e[1]].letter
               /\ seats[EntryAt(e).id].seat_number = EntryAt(e).number
               /\ EntryAt(e).status =
                      IF EntryAt(e).id \in view.selected_ids THEN "selected"
                      ELSE IF seats[EntryAt(e).id].is_booked THEN "booked"
                      ELSE "available"
        /\ \A r \in 1..(Len(view.rows) - 1) :
               RowIndex(view.rows[r].letter) < RowIndex(view.rows[r + 1].letter)
        /\ \A r \in 1..Len(view.rows) :
               /\ view.rows[r].seats # <<>>
               /\ \A k \in 1..(Len(view.rows[r].seats) - 1) :
                      view.rows[r].seats[k].number < view.rows[r].seats[k + 1].number

\* A map of several rows with a selected seat that is booked, a booked seat
\* and an available seat.
C15_Witness ==
    /\ view.kind = "selection"
    /\ Len(view.rows) >= 2
    /\ \E e \in MapEntries : EntryAt(e).status = "selected" /\ seats[EntryAt(e).id].is_booked
    /\ \E e \in MapEntries : EntryAt(e).status = "booked"
    /\ \E e \in MapEntries : EntryAt(e).status = "available"

\* The seat records of row letter and number in the venue of the viewed booking.
RecordsAt(letter, number) ==
    { i \in 1..Len(seats) :
        /\ seats[i].movie_id = view.movie_id
        /\ seats[i].row_letter = letter
        /\ seats[i].seat_number = number }

\* C16: the booking map lists the rows of the venue in descending letter
\* order and, for every column 1..seats_per_row of every row, marks the seat
\* 'o' if it is linked to the viewed booking, else '#' if it is linked to
\* another booking, else '.'; a slot without a seat record is marked '.'.
C16_BookingMap ==
    view.kind = "booking" =>
        /\ Len(view.rows) = movies[view.movie_id].rows
        /\ \A r \in 1..Len(view.rows) :
               /\ view.rows[r].letter = ascii_uppercase[movies[view.movie_id].rows + 1 - r]
               /\ Len(view.rows[r].seats) = movies[view.movie_id].seats_per_row
               /\ \A k \in 1..Len(view.rows[r].seats) :
                      /\ view.rows[r].seats[k].number = k
                      /\ view.rows[r].seats[k].marker =
                             IF RecordsAt(view.rows[r].letter, k) = {} THEN "."
                             ELSE IF RecordsAt(view.rows[r].letter, k) \subseteq LinkedSeats(view.booking)
                             THEN "o"
                             ELSE IF \E b \in 1..Len(bookings) :
                                         /\ b # view.booking
                                         /\ RecordsAt(view.rows[r].letter, k) \cap LinkedSeats(b) # {}
                             THEN "#"
                             ELSE "."

\* A venue of several rows, the front row first, with a seat of the viewed
\* booking, a seat of another booking and an available seat.
C16_Witness ==
    /\ view.kind = "booking"
    /\ Len(view.rows) >= 2
    /\ RowIndex(view.rows[1].letter) > RowIndex(view.rows[2].letter)
    /\ \E r \in 1..Len(view.rows) : \E k \in 1..Len(view.rows[r].seats) :
           view.rows[r].seats[k].marker = "o"
    /\ \E r \in 1..Len(view.rows) : \E k \in 1..Len(view.rows[r].seats) :
           view.rows[r].seats[k].marker = "#"
    /\ \E r \in 1..Len(view.rows) : \E k \in 1..Len(view.rows[r].seats) :
           view.rows[r].seats[k].marker = "."

(***************************************************************************)
(* Claims about the result of allocate_seats as a whole                    *)
(***************************************************************************)

\* The row and the number of the k-th seat returned.
RetRow(k) == RowIndex(seats[ret.seats[k]].row_letter)

RetNumber(k) == seats[ret.seats[k]].seat_number

\* C21: the seats of a successful allocation are in selection order: along
\* the sequence the row letter never decreases, within one row the seat
\* number strictly ascends, and the sequence is the one the allocator
\* collected, not re-sorted.
C21_SelectionOrder ==
    (result.called /\ ret.success) =>
        /\ \A k \in 1..(Len(ret.seats) - 1) :
               \/ RetRow(k) < RetRow(k + 1)
               \/ RetRow(k) = RetRow(k + 1) /\ RetNumber(k) < RetNumber(k + 1)
        /\ ret.seats =
               IF PositionCall /\ start_text # <<>>
               THEN Collected
               ELSE get_default_seats(active_movie, result.num_tickets)

\* An allocation over two rows whose seat numbers go down where the row
\* changes: the order is that of selection, not of seat number.
C21_Witness ==
    /\ result.called
    /\ ret.success
    /\ \E k \in 1..(Len(ret.seats) - 1) :
           /\ RetRow(k) < RetRow(k + 1)
           /\ RetNumber(k) > RetNumber(k + 1)
    /\ \E k \in 1..(Len(ret.seats) - 1) :
           /\ RetRow(k) = RetRow(k + 1)
           /\ RetNumber(k) < RetNumber(k + 1)

\* C23: whatever seats are booked, allocate without a start position and with
\* 1 <= num_tickets <= number of unbooked seats succeeds with exactly
\* num_tickets seats; a default allocation never ends in FragmentationFailure.
C23_DefaultNeverFragments ==
    DefaultCall =>
        /\ ret.error.kind # "FragmentationFailure"
        /\ (result.num_tickets >= 1 /\ EnoughSeats) =>
               /\ ret.success
               /\ Len(ret.seats) = result.num_tickets

\* Seats are booked, no two unbooked seats of a row are neighbours, and two
\* seats of one row are allocated all the same.
C23_Witness ==
    /\ DefaultCall
    /\ ~NoSeatBooked
    /\ \E i, j \in UnbookedSeats :
           /\ seats[i].row_letter = seats[j].row_letter
           /\ seats[j].seat_number >= seats[i].seat_number + 2
    /\ \A i, j \in UnbookedSeats :
           seats[i].row_letter = seats[j].row_letter =>
               seats[j].seat_number # seats[i].seat_number + 1
    /\ result.num_tickets = 2
    /\ ret.success
    /\ RetRow(1) = RetRow(2)

\* C24: for num_tickets >= 1 every result is well formed.  On success seats
\* has exactly num_tickets entries, pairwise distinct, each of the venue and
\* each unbooked, and no error; on failure seats is empty and the error is set.
C24_WellFormedResult ==
    (result.called /\ result.num_tickets >= 1) =>
        IF ret.success
        THEN /\ Len(ret.seats) = result.num_tickets
             /\ PairwiseDistinct(ret.seats)
             /\ Range(ret.seats) \subseteq UnbookedSeats
             /\ ret.error = NoError
        ELSE /\ ret.seats = <<>>
             /\ ret.error.kind \in { "InsufficientCapacity", "InvalidFormat",
                                     "RowOutOfRange", "ColumnOutOfRange",
                                     "FragmentationFailure" }

\* A positional allocation in a venue with booked seats that succeeds over
\* two rows.
C24_Witness ==
    /\ PositionCall
    /\ ~NoSeatBooked
    /\ result.num_tickets >= 3
    /\ ret.success
    /\ Len(ret.seats) = result.num_tickets
    /\ \E k \in 1..(Len(ret.seats) - 1) : RetRow(k) < RetRow(k + 1)

\* A call that fails, with a set error and no seat.
C24_FailureWitness ==
    /\ result.called
    /\ result.num_tickets >= 1
    /\ ~ret.success
    /\ ret.seats = <<>>
    /\ ret.error.kind = "FragmentationFailure"

\* The unbooked seats a positional allocation can take: those of the start
\* row from the start column on, and those of every later row.
ReachableFromStart ==
    { i \in UnbookedSeats :
        \/ /\ seats[i].row_letter = start.row_letter
           /\ seats[i].seat_number >= start.col_number
        \/ RowIndex(seats[i].row_letter) > RowIndex(start.row_letter) }

\* C25: with an in-range start position (r, c) and 1 <= num_tickets <= number
\* of unbooked seats, positional allocation succeeds if and only if the
\* unbooked seats of row r from c on and of all rows after r are at least
\* num_tickets; otherwise it fails with FragmentationFailure.
C25_PositionalSuccess ==
    (ValidPositionCall /\ result.num_tickets >= 1) =>
        IF Cardinality(ReachableFromStart) >= result.num_tickets
        THEN ret.success
        ELSE Fails("FragmentationFailure")

\* What the code does keep of C25: the same, when the start row has an
\* unbooked seat.
C25_WhenStartRowHasFreeSeat ==
    (ValidPositionCall /\ result.num_tickets >= 1 /\ StartRowHasFreeSeat) =>
        IF Cardinality(ReachableFromStart) >= result.num_tickets
        THEN ret.success
        ELSE Fails("FragmentationFailure")

(***************************************************************************)
(* Claims about the centered block, the venue of a setup and the booked    *)
(* flags                                                                   *)
(***************************************************************************)

\* C26: the block chosen in a completely free row is centered.  For
\* 1 <= count <= seats_per_row the block is the count seats from the centered
\* start column on, it lies within 1..seats_per_row, and the free seats left
\* of it are as many as those right of it or one fewer.
C26_BlockIsCentered ==
    ( /\ selection.kind = "block"
      /\ NoSeatBooked
      /\ selection.count \in 1..venue_seats_per_row )
    => LET start_col == selection.start_col
           left == start_col - 1
           right == venue_seats_per_row - (start_col + selection.count - 1)
       IN  /\ PickedNumbers = [ k \in 1..selection.count |-> start_col + k - 1 ]
           /\ start_col >= 1
           /\ start_col + selection.count - 1 <= venue_seats_per_row
           /\ left <= right
           /\ right - left <= 1

\* Three seats in a free row of an even length of at least 8: one seat more
\* stays free on the right than on the left.
C26_Witness ==
    /\ selection.kind = "block"
    /\ NoSeatBooked
    /\ venue_seats_per_row >= 8
    /\ venue_seats_per_row % 2 = 0
    /\ selection.count = 3
    /\ PickedNumbers[1] - 1 + 1 = venue_seats_per_row - PickedNumbers[3]
    /\ PickedNumbers[3] = PickedNumbers[1] + 2

\* The title has a character that strip() keeps.
TitleGiven(title) == \E k \in 1..Len(title) : title[k] # " "

\* C22: a setup with a title, rows in 1..26 and seats_per_row in 1..50 adds
\* one active venue with exactly rows * seats_per_row seats, exactly one for
\* every row letter among the first rows letters and every seat number in
\* 1..seats_per_row, all unbooked, and leaves every older seat and booking as
\* it was; a setup with rows or seats_per_row outside these ranges (or without
\* a title) creates no venue and no seat.
C22_VenueAfterSetup ==
    [][ (~setup.posted /\ setup'.posted) =>
            LET rows == setup'.rows
                seats_per_row == setup'.seats_per_row
                new == Len(movies) + 1
            IN  IF /\ rows \in 1..MAX_ROWS
                   /\ seats_per_row \in 1..MAX_SEATS_PER_ROW
                   /\ TitleGiven(setup'.title)
                THEN /\ setup'.accepted
                     /\ Len(movies') = new
                     /\ movies'[new] = [rows |-> rows, seats_per_row |-> seats_per_row,
                                        is_active |-> TRUE]
                     /\ \A m \in 1..Len(movies) :
                            /\ ~movies'[m].is_active
                            /\ movies'[m].rows = movies[m].rows
                            /\ movies'[m].seats_per_row = movies[m].seats_per_row
                     /\ SubSeq(seats', 1, Len(seats)) = seats
                     /\ Len(seats') = Len(seats) + rows * seats_per_row
                     /\ \A i \in (Len(seats) + 1)..Len(seats') :
                            /\ seats'[i].movie_id = new
                            /\ ~seats'[i].is_booked
                     /\ \A r \in 1..rows : \A c \in 1..seats_per_row :
                            Cardinality({ i \in 1..Len(seats') :
                                            /\ seats'[i].movie_id = new
                                            /\ seats'[i].row_letter = ascii_uppercase[r]
                                            /\ seats'[i].seat_number = c }) = 1
                     /\ bookings' = bookings
                     /\ booking_seats' = booking_seats
                ELSE /\ ~setup'.accepted
                     /\ db' = db
      ]_vars

\* A second venue of two rows has been set up while a seat of the first
\* venue is booked.
C22_Witness ==
    /\ setup.posted
    /\ setup.accepted
    /\ setup.rows = 2
    /\ Len(movies) = 2
    /\ movies[2].is_active /\ ~movies[1].is_active
    /\ Cardinality({ i \in 1..Len(seats) : seats[i].movie_id = 2 }) = 2 * setup.seats_per_row
    /\ \E i \in 1..Len(seats) : seats[i].movie_id = 1 /\ seats[i].is_booked

\* A setup with a title and more rows than 26 has been refused.
C22_RefusedWitness ==
    /\ setup.posted
    /\ ~setup.accepted
    /\ TitleGiven(setup.title)
    /\ setup.rows = MAX_ROWS + 1
    /\ setup.seats_per_row \in 1..MAX_SEATS_PER_ROW
    /\ Len(movies) >= 1

\* The bookings that link seat i.
BookingsOf(i) == { b \in 1..Len(bookings) : i \in LinkedSeats(b) }

RECURSIVE SumOfSizes(_)
SumOfSizes(bs) ==
    IF bs = {}
    THEN 0
    ELSE LET b == CHOOSE x \in bs : TRUE
         IN  Cardinality(LinkedSeats(b)) + SumOfSizes(bs \ {b})

\* C27: after any sequence of setups and confirmations a seat is booked if
\* and only if it is linked to exactly one booking, no seat is linked to more
\* than one booking, and the booked seats of a venue are as many as the sizes
\* of its bookings together.
C27_BookedIffLinkedOnce ==
    /\ \A i \in 1..Len(seats) :
           /\ seats[i].is_booked <=> Cardinality(BookingsOf(i)) = 1
           /\ Cardinality(BookingsOf(i)) <= 1
    /\ \A x \in booking_seats :
           /\ x.booking_id \in 1..Len(bookings)
           /\ x.seat_id \in 1..Len(seats)
           /\ seats[x.seat_id].movie_id = bookings[x.booking_id].movie_id
    /\ \A m \in 1..Len(movies) :
           Cardinality({ i \in 1..Len(seats) : seats[i].movie_id = m /\ seats[i].is_booked })
               = SumOfSizes({ b \in 1..Len(bookings) : bookings[b].movie_id = m })

\* Two venues, three booked seats: the older venue has a booking and the
\* active one has two.
C27_Witness ==
    /\ Len(movies) >= 2
    /\ \E b \in 1..Len(bookings) : bookings[b].movie_id # get_active_movie
    /\ \E b1, b2 \in 1..Len(bookings) :
           /\ b1 # b2
           /\ bookings[b1].movie_id = get_active_movie
           /\ bookings[b2].movie_id = get_active_movie
    /\ Cardinality({ i \in 1..Len(seats) : seats[i].is_booked }) = 3
    /\ ~confirm.posted

====
